---- MODULE Spec2Model ----
(***************************************************************************)
(* Model of frontend/app/page.tsx: the Home component of the PDF RAG       *)
(* front-end.  The component state (useState slots), the two asynchronous  *)
(* workflows processRAG / processScoring with their suspension points      *)
(* (await fetch, await response.json), the interval and one-shot timers    *)
(* they start, the upload handlers and the part of the render function     *)
(* that carries logic (button guards, status icon, score colour, tally).   *)
(***************************************************************************)
EXTENDS Integers, Sequences, FiniteSets, TLC

\* ------------------------------------------------------------------ bounds
\* total number of workflow invocations that issue a request
MaxCalls == 2
\* the same, where the handlers are called directly
MaxDirectCalls == 1
\* the same, for each of the two instances of the pair specification
MaxPairCalls == 1
\* longest list the backend returns in the workflow specifications
MaxBody == 1
\* longest scoringResults list drawn in the rendering specification
MaxResults == 4

\* ------------------------------------------------------- program constants
RagStep == 10
RagCeiling == 90
ScoringStep == 15
ScoringCeiling == 90
Complete == 100

\* --------------------------------------------------------------- universes
\* a File is a record; null (empty state slot) and undefined (nothing picked)
\* are records of the same shape so that every slot has one type
Null == [name |-> "null", type |-> "null"]
Undefined == [name |-> "undefined", type |-> "undefined"]

PDF == "application/pdf"
JSON == "application/json"

\* the File objects a user can pick
Files ==
  { [name |-> "a.pdf", type |-> PDF], [name |-> "b.pdf", type |-> PDF],
    [name |-> "q.json", type |-> JSON], [name |-> "notes.txt", type |-> "text/plain"] }

\* what event.target.files?.[0] can be: a File, or undefined (picker cancelled)
Picked == Files \cup {Undefined}

\* type Answer; confidence in percent
Answers == { [question |-> "Q1", answer |-> "A1", confidence |-> 90] }

\* type ScoredAnswer; score in hundredths.  The status is whatever the
\* backend sent: it need not agree with the score, nor be one of the enum.
ScoredAnswers ==
  { [question |-> "Q1", score |-> 80, status |-> "excellent"],
    [question |-> "Q2", score |-> 70, status |-> "excellent"],
    [question |-> "Q3", score |-> 60, status |-> "good"],
    [question |-> "Q4", score |-> 30, status |-> "poor"],
    [question |-> "Q5", score |-> 50, status |-> "fair"] }

\* the scored answers the backend returns in the workflow specifications
BackendScored == {r \in ScoredAnswers : r.question = "Q1"}

RECURSIVE ListsUpTo(_, _)
ListsUpTo(S, n) ==
  IF n = 0 THEN {<<>>}
  ELSE LET shorter == ListsUpTo(S, n - 1)
       IN  shorter \cup {Append(l, x) : l \in {m \in shorter : Len(m) = n - 1}, x \in S}

\* a JavaScript value held in a result slot: an array, or undefined
Array(l) == [tag |-> "array", items |-> l]
UndefinedValue == [tag |-> "undefined", items |-> <<>>]

\* the body of a 2xx answer: a JSON object with the list field, a JSON
\* object without it, the JSON value null, or text that is not JSON
Body(l) == [tag |-> "object", has |-> TRUE, list |-> l]
BodyNoField == [tag |-> "object", has |-> FALSE, list |-> <<>>]
BodyNull == [tag |-> "null", has |-> FALSE, list |-> <<>>]
BodyInvalid == [tag |-> "invalid", has |-> FALSE, list |-> <<>>]
\* no body is read: the request is outstanding, or the status was not 2xx
NoBody == [tag |-> "none", has |-> FALSE, list |-> <<>>]
RagBodies ==
  {Body(l) : l \in ListsUpTo(Answers, MaxBody)} \cup {BodyNoField, BodyNull, BodyInvalid}
ScoringBodies ==
  {Body(l) : l \in ListsUpTo(BackendScored, MaxBody)} \cup {BodyNoField, BodyNull, BodyInvalid}
BodiesOf(kind) == IF kind = "rag" THEN RagBodies ELSE ScoringBodies

Min(a, b) == IF a <= b THEN a ELSE b

\* ------------------------------------------------------------------- state
VARIABLES
  activeTab,            \* useState('rag')
  pdfFile,              \* useState<File | null>(null)
  questionsFile,
  expectedAnswersFile,
  loading,              \* the busy flag
  progress,
  ragResults,
  scoringResults,
  calls,                \* invocations of processRAG / processScoring that are suspended at an await
  intervals,            \* active setInterval timers
  timeouts,             \* number of pending setTimeout(() => setProgress(0), 1000) timers
  requests,             \* number of fetch calls issued so far
  rendered,             \* the output of the last render of Home
  lastEvent,            \* the handler or callback that ran last, with its input or its exit
  twin                  \* a second instance of the component (pair specification only)

vars == <<activeTab, pdfFile, questionsFile, expectedAnswersFile, loading, progress,
          ragResults, scoringResults, calls, intervals, timeouts, requests,
          rendered, lastEvent, twin>>

\* the component instance as one value
State ==
  [ activeTab |-> activeTab, pdfFile |-> pdfFile, questionsFile |-> questionsFile,
    expectedAnswersFile |-> expectedAnswersFile, loading |-> loading,
    progress |-> progress, ragResults |-> ragResults,
    scoringResults |-> scoringResults, calls |-> calls, intervals |-> intervals,
    timeouts |-> timeouts, requests |-> requests, lastEvent |-> lastEvent ]

\* the state after construction (the useState initial values)
InitialState ==
  [ activeTab |-> "rag", pdfFile |-> Null, questionsFile |-> Null,
    expectedAnswersFile |-> Null, loading |-> FALSE, progress |-> 0,
    ragResults |-> Array(<<>>), scoringResults |-> Array(<<>>),
    calls |-> {}, intervals |-> {}, timeouts |-> 0, requests |-> 0,
    lastEvent |-> <<"mount", "">> ]

Event(s, op, how) == [s EXCEPT !.lastEvent = <<op, how>>]

\* --------------------------------------------------------- upload handlers
\* handlePdfUpload without the content-type test
handlePdfUpload_AnyType(s, file) ==
  IF file # Undefined
  THEN Event([s EXCEPT !.pdfFile = file], "handlePdfUpload", file.type)
  ELSE Event(s, "handlePdfUpload", file.type)

\* handlePdfUpload storing null when it rejects the file
handlePdfUpload_ClearsOnReject(s, file) ==
  IF file # Undefined /\ file.type = PDF
  THEN Event([s EXCEPT !.pdfFile = file], "handlePdfUpload", file.type)
  ELSE Event([s EXCEPT !.pdfFile = Null], "handlePdfUpload", file.type)

handlePdfUpload(s, file) ==
  IF file # Undefined /\ file.type = PDF
  THEN Event([s EXCEPT !.pdfFile = file], "handlePdfUpload", file.type)
  ELSE Event(s, "handlePdfUpload", file.type)

handleQuestionsUpload(s, file) ==
  IF file # Undefined /\ file.type = JSON
  THEN Event([s EXCEPT !.questionsFile = file], "handleQuestionsUpload", file.type)
  ELSE Event(s, "handleQuestionsUpload", file.type)

handleExpectedAnswersUpload(s, file) ==
  IF file # Undefined /\ file.type = JSON
  THEN Event([s EXCEPT !.expectedAnswersFile = file], "handleExpectedAnswersUpload", file.type)
  ELSE Event(s, "handleExpectedAnswersUpload", file.type)

\* --------------------------------------------------------------- workflows
\* an invocation suspended at an await: its id (the number of its request),
\* the workflow, the await it is at, the body of the response it is reading,
\* and the result sets as they were when it was invoked
Call(s, id, kind) ==
  [id |-> id, kind |-> kind, pc |-> "fetch", body |-> NoBody,
   before |-> [ragResults |-> s.ragResults, scoringResults |-> s.scoringResults]]

\* a setInterval timer, known by the invocation whose progressInterval it is
Interval(id, kind) == [owner |-> id, kind |-> kind]

Without(s, c) == [s EXCEPT !.calls = @ \ {c}]
Reading(s, c, body) ==
  [s EXCEPT !.calls = (@ \ {c}) \cup {[c EXCEPT !.pc = "json", !.body = body]}]

\* the check of processRAG without its second operand
RagMissingFile_PdfOnly(s) == s.pdfFile = Null

\* line 64 and line 102: the missing-file checks
RagMissingFile(s) == s.pdfFile = Null \/ s.questionsFile = Null
ScoringMissingFile(s) == s.questionsFile = Null \/ s.expectedAnswersFile = Null

\* the updater of processRAG with the terminal value as its ceiling
ragTick_To100(prev) == Min(prev + RagStep, Complete)

\* the setProgress updaters of the two interval callbacks
ragTick(prev) == Min(prev + RagStep, RagCeiling)
scoringTick(prev) == Min(prev + ScoringStep, ScoringCeiling)

\* processRAG up to its first await: lines 64-82
processRAG(s) ==
  IF RagMissingFile(s)
  THEN Event(s, "processRAG", "return")
  ELSE LET id == s.requests + 1
       IN  Event([s EXCEPT !.loading = TRUE,
                           !.progress = 0,
                           !.intervals = @ \cup {Interval(id, "rag")},
                           !.requests = id,
                           !.calls = @ \cup {Call(s, id, "rag")}],
                 "processRAG", "fetch")

\* the finally block of processRAG: lines 95-98
ragFinally(s, c) ==
  [Without(s, c) EXCEPT !.loading = FALSE, !.timeouts = @ + 1]

\* ragResponse with an else branch that clears the result set
ragResponse_ClearsOnFailure(s, c, ok, body) ==
  LET s1 == [s EXCEPT !.intervals = @ \ {Interval(c.id, "rag")},
                      !.progress = Complete]
  IN  IF ok
      THEN Event(Reading(s1, c, body), "ragResponse", "ok")
      ELSE Event(ragFinally([s1 EXCEPT !.ragResults = Array(<<>>)], c),
                 "ragResponse", "non2xx")

\* fetch resolved with a response: lines 84-92, and finally unless it awaits json()
ragResponse(s, c, ok, body) ==
  LET s1 == [s EXCEPT !.intervals = @ \ {Interval(c.id, "rag")},
                      !.progress = Complete]
  IN  IF ok
      THEN Event(Reading(s1, c, body), "ragResponse", "ok")
      ELSE Event(ragFinally(s1, c), "ragResponse", "non2xx")

\* a catch block that sends the request again
ragFetchThrows_Retries(s, c) ==
  Event([s EXCEPT !.requests = @ + 1], "ragFetchThrows", "caught")

\* fetch rejected (network failure): lines 93-98
ragFetchThrows(s, c) ==
  Event(ragFinally(s, c), "ragFetchThrows", "caught")

\* ragJson appending the answers to the result set it finds
ragJson_Appends(s, c) ==
  IF c.body.tag # "object"
  THEN Event(ragFinally(s, c), "ragJson", "caught")
  ELSE LET answers == IF c.body.has THEN Array(s.ragResults.items \o c.body.list)
                                    ELSE UndefinedValue
       IN  Event(ragFinally([s EXCEPT !.ragResults = answers], c),
                 "ragJson", "stored")

\* response.json() settled: lines 88-89, then catch and finally.  json()
\* rejects when the body is not JSON, and reading .answers of null throws a
\* TypeError; the catch block takes both.
ragJson(s, c) ==
  IF c.body.tag # "object"
  THEN Event(ragFinally(s, c), "ragJson", "caught")
  ELSE LET answers == IF c.body.has THEN Array(c.body.list) ELSE UndefinedValue
       IN  Event(ragFinally([s EXCEPT !.ragResults = answers], c),
                 "ragJson", "stored")

\* processScoring up to its first await: lines 102-120
processScoring(s) ==
  IF ScoringMissingFile(s)
  THEN Event(s, "processScoring", "return")
  ELSE LET id == s.requests + 1
       IN  Event([s EXCEPT !.loading = TRUE,
                           !.progress = 0,
                           !.intervals = @ \cup {Interval(id, "scoring")},
                           !.requests = id,
                           !.calls = @ \cup {Call(s, id, "scoring")}],
                 "processScoring", "fetch")

\* the finally block of processScoring: lines 133-136
scoringFinally(s, c) ==
  [Without(s, c) EXCEPT !.loading = FALSE, !.timeouts = @ + 1]

scoringResponse(s, c, ok, body) ==
  LET s1 == [s EXCEPT !.intervals = @ \ {Interval(c.id, "scoring")},
                      !.progress = Complete]
  IN  IF ok
      THEN Event(Reading(s1, c, body), "scoringResponse", "ok")
      ELSE Event(scoringFinally(s1, c), "scoringResponse", "non2xx")

scoringFetchThrows(s, c) ==
  Event(scoringFinally(s, c), "scoringFetchThrows", "caught")

\* scoringJson storing the list in the result set of the other workflow
scoringJson_WrongSlot(s, c) ==
  IF c.body.tag # "object"
  THEN Event(scoringFinally(s, c), "scoringJson", "caught")
  ELSE LET scored == IF c.body.has THEN Array(c.body.list) ELSE UndefinedValue
       IN  Event(scoringFinally([s EXCEPT !.ragResults = scored], c),
                 "scoringJson", "stored")

scoringJson(s, c) ==
  IF c.body.tag # "object"
  THEN Event(scoringFinally(s, c), "scoringJson", "caught")
  ELSE LET scored == IF c.body.has THEN Array(c.body.list) ELSE UndefinedValue
       IN  Event(scoringFinally([s EXCEPT !.scoringResults = scored], c),
                 "scoringJson", "stored")

\* ------------------------------------------------------------------ timers
\* one firing of an interval callback: setProgress(prev => Math.min(...))
intervalFires(s, t) ==
  Event([s EXCEPT !.progress = IF t.kind = "rag" THEN ragTick(@) ELSE scoringTick(@)],
        "intervalFires", t.kind)

\* one firing of a setTimeout(() => setProgress(0), 1000) callback
timeoutFires(s) ==
  Event([s EXCEPT !.progress = 0, !.timeouts = @ - 1], "timeoutFires", "")

\* ------------------------------------------------------------------ render
\* getScoreColor with strict comparisons
getScoreColor_Strict(score) ==
  IF score > 80 THEN "bg-green-100 text-green-800"
  ELSE IF score > 60 THEN "bg-yellow-100 text-yellow-800"
  ELSE "bg-red-100 text-red-800"

getScoreColor(score) ==
  IF score >= 80 THEN "bg-green-100 text-green-800"
  ELSE IF score >= 60 THEN "bg-yellow-100 text-yellow-800"
  ELSE "bg-red-100 text-red-800"

getStatusIcon(status) ==
  IF status = "excellent" THEN "CheckCircle text-green-600"
  ELSE IF status = "good" THEN "AlertCircle text-yellow-600"
  ELSE "AlertCircle text-red-600"

\* lines 379-382: the icon and the badge of one scored answer
ScoredItem(result) ==
  [icon |-> getStatusIcon(result.status),
   badge |-> getScoreColor(result.score),
   label |-> result.score]

\* scoringResults.filter(r => r.status === status).length
Tally(results, status) ==
  LET Has(r) == r.status = status
  IN  Len(SelectSeq(results, Has))

\* OverallPerformance with the filter of the second count copied to the third
OverallPerformance_CopiedFilter(results) ==
  [excellent |-> Tally(results, "excellent"),
   good |-> Tally(results, "good"),
   poor |-> Tally(results, "good")]

\* lines 407-425: the Overall Performance counts
OverallPerformance(results) ==
  [excellent |-> Tally(results, "excellent"),
   good |-> Tally(results, "good"),
   poor |-> Tally(results, "poor")]

\* the Score Answers button without the busy flag in its disabled attribute
ScoreDisabled_IgnoresLoading(s) == s.questionsFile = Null \/ s.expectedAnswersFile = Null

\* the Generate Answers button without the busy flag in its disabled attribute
GenerateDisabled_IgnoresLoading(s) == s.pdfFile = Null \/ s.questionsFile = Null

\* the disabled attribute of the two submit buttons: lines 218 and 320
GenerateDisabled(s) == s.pdfFile = Null \/ s.questionsFile = Null \/ s.loading
ScoreDisabled(s) == s.questionsFile = Null \/ s.expectedAnswersFile = Null \/ s.loading

\* reading .length of undefined throws during render: lines 260 and 361
RenderThrows(s) == s.ragResults.tag # "array" \/ s.scoringResults.tag # "array"

NoPanel == [shown |-> FALSE, items |-> <<>>, overall |-> OverallPerformance(<<>>)]

\* the part of the element tree Home returns that depends on state
Render(s) ==
  IF RenderThrows(s)
  THEN [error |-> TRUE, generateDisabled |-> TRUE, scoreDisabled |-> TRUE,
        progressShown |-> FALSE, answersShown |-> FALSE, scoring |-> NoPanel]
  ELSE [error |-> FALSE,
        generateDisabled |-> GenerateDisabled(s),
        scoreDisabled |-> ScoreDisabled(s),
        progressShown |-> s.loading,
        answersShown |-> Len(s.ragResults.items) > 0,
        scoring |->
          IF Len(s.scoringResults.items) > 0
          THEN [shown |-> TRUE,
                items |-> [i \in 1..Len(s.scoringResults.items) |->
                             ScoredItem(s.scoringResults.items[i])],
                overall |-> OverallPerformance(s.scoringResults.items)]
          ELSE NoPanel]

\* a state assignment followed by the re-render React performs
Commit(s) ==
  /\ activeTab' = s.activeTab
  /\ pdfFile' = s.pdfFile
  /\ questionsFile' = s.questionsFile
  /\ expectedAnswersFile' = s.expectedAnswersFile
  /\ loading' = s.loading
  /\ progress' = s.progress
  /\ ragResults' = s.ragResults
  /\ scoringResults' = s.scoringResults
  /\ calls' = s.calls
  /\ intervals' = s.intervals
  /\ timeouts' = s.timeouts
  /\ requests' = s.requests
  /\ lastEvent' = s.lastEvent
  /\ rendered' = Render(s)

\* the component is on the page: a render that threw unmounts it
Mounted == ~rendered.error

\* ----------------------------------------------------------------- actions
\* the variables hold instance s, freshly rendered
Holds(s) ==
  /\ activeTab = s.activeTab
  /\ pdfFile = s.pdfFile
  /\ questionsFile = s.questionsFile
  /\ expectedAnswersFile = s.expectedAnswersFile
  /\ loading = s.loading
  /\ progress = s.progress
  /\ ragResults = s.ragResults
  /\ scoringResults = s.scoringResults
  /\ calls = s.calls
  /\ intervals = s.intervals
  /\ timeouts = s.timeouts
  /\ requests = s.requests
  /\ lastEvent = s.lastEvent
  /\ rendered = Render(s)

Init ==
  /\ Holds(InitialState)
  /\ twin = InitialState

\* Tabs onValueChange={setActiveTab}
SelectTab(tab) ==
  /\ Mounted
  /\ tab # activeTab
  /\ Commit(Event([State EXCEPT !.activeTab = tab], "setActiveTab", tab))
  /\ UNCHANGED twin

\* the PDF input of the RAG tab changes: line 189
PickPdf(file) ==
  /\ Mounted
  /\ activeTab = "rag"
  /\ Commit(handlePdfUpload(State, file))
  /\ UNCHANGED twin

\* the questions input changes; both tabs have one: lines 205 and 303
PickQuestions(file) ==
  /\ Mounted
  /\ Commit(handleQuestionsUpload(State, file))
  /\ UNCHANGED twin

\* the expected-answers input of the scoring tab changes: line 313
PickExpectedAnswers(file) ==
  /\ Mounted
  /\ activeTab = "scoring"
  /\ Commit(handleExpectedAnswersUpload(State, file))
  /\ UNCHANGED twin

\* a click on Generate Answers; a disabled button delivers no click
ClickGenerate ==
  /\ Mounted
  /\ activeTab = "rag"
  /\ ~rendered.generateDisabled
  /\ requests < MaxCalls
  /\ Commit(processRAG(State))
  /\ UNCHANGED twin

\* a click on Score Answers
ClickScore ==
  /\ Mounted
  /\ activeTab = "scoring"
  /\ ~rendered.scoreDisabled
  /\ requests < MaxCalls
  /\ Commit(processScoring(State))
  /\ UNCHANGED twin

\* the backend answers the request of invocation c: fetch resolves with a
\* response whose status is 2xx or not; a 2xx response carries a body
Response(c, ok, body) ==
  /\ Mounted
  /\ c \in calls
  /\ c.pc = "fetch"
  /\ body \in IF ok THEN BodiesOf(c.kind) ELSE {NoBody}
  /\ Commit(IF c.kind = "rag" THEN ragResponse(State, c, ok, body)
                              ELSE scoringResponse(State, c, ok, body))
  /\ UNCHANGED twin

\* the request of invocation c fails on the network: fetch rejects
FetchFails(c) ==
  /\ Mounted
  /\ c \in calls
  /\ c.pc = "fetch"
  /\ Commit(IF c.kind = "rag" THEN ragFetchThrows(State, c)
                              ELSE scoringFetchThrows(State, c))
  /\ UNCHANGED twin

\* response.json() of invocation c settles
JsonSettles(c) ==
  /\ Mounted
  /\ c \in calls
  /\ c.pc = "json"
  /\ Commit(IF c.kind = "rag" THEN ragJson(State, c) ELSE scoringJson(State, c))
  /\ UNCHANGED twin

IntervalTick(t) ==
  /\ Mounted
  /\ t \in intervals
  /\ Commit(intervalFires(State, t))
  /\ UNCHANGED twin

TimeoutFire ==
  /\ Mounted
  /\ timeouts > 0
  /\ Commit(timeoutFires(State))
  /\ UNCHANGED twin

Async ==
  \/ \E c \in calls, ok \in BOOLEAN, body \in RagBodies \cup ScoringBodies \cup {NoBody} :
       Response(c, ok, body)
  \/ \E c \in calls : FetchFails(c)
  \/ \E c \in calls : JsonSettles(c)
  \/ \E t \in intervals : IntervalTick(t)
  \/ TimeoutFire

User ==
  \/ \E tab \in {"rag", "scoring"} : SelectTab(tab)
  \/ \E file \in Picked : PickPdf(file)
  \/ \E file \in Picked : PickQuestions(file)
  \/ \E file \in Picked : PickExpectedAnswers(file)
  \/ ClickGenerate
  \/ ClickScore

\* the page as a user drives it
Next == User \/ Async

Spec == Init /\ [][Next]_vars

\* ------------------------------------------- the handlers called directly
\* processRAG and processScoring called as functions, as a test of the
\* component would: no button stands between the caller and the handler
InvokeProcessRAG ==
  /\ Mounted
  /\ pdfFile = Null \/ questionsFile = Null \/ requests < MaxDirectCalls
  /\ Commit(processRAG(State))
  /\ UNCHANGED twin

InvokeProcessScoring ==
  /\ Mounted
  /\ questionsFile = Null \/ expectedAnswersFile = Null \/ requests < MaxDirectCalls
  /\ Commit(processScoring(State))
  /\ UNCHANGED twin

NextDirect ==
  \/ \E file \in Picked : PickPdf(file)
  \/ \E file \in Picked : PickQuestions(file)
  \/ \E tab \in {"rag", "scoring"} : SelectTab(tab)
  \/ \E file \in Picked : PickExpectedAnswers(file)
  \/ InvokeProcessRAG
  \/ InvokeProcessScoring
  \/ Async

SpecDirect == Init /\ [][NextDirect]_vars

\* ------------------------------------------------- rendering of a result
\* the lists of scored answers the backend may return to the rendering check
ScoredLists == ListsUpTo(ScoredAnswers, MaxResults)

\* the instance with a scoring request outstanding: both files picked on
\* the scoring tab and Score Answers clicked
ScoringRequested ==
  LET file == CHOOSE f \in Files : f.type = JSON
      s0 == Event([InitialState EXCEPT !.activeTab = "scoring"], "setActiveTab", "scoring")
      s1 == handleExpectedAnswersUpload(handleQuestionsUpload(s0, file), file)
  IN  processScoring(s1)

InitRender ==
  /\ Holds(ScoringRequested)
  /\ twin = InitialState

\* the backend answers the scoring request with a list of scored answers
ScoredResponse(c, scored) ==
  /\ Mounted
  /\ c \in calls
  /\ c.pc = "fetch"
  /\ c.kind = "scoring"
  /\ Commit(scoringResponse(State, c, TRUE, Body(scored)))
  /\ UNCHANGED twin

\* every state assignment re-renders Home
NextRender ==
  \/ \E c \in calls, scored \in ScoredLists : ScoredResponse(c, scored)
  \/ \E c \in calls : JsonSettles(c)
  \/ \E tab \in {"rag", "scoring"} : SelectTab(tab)
  \/ \E t \in intervals : IntervalTick(t)
  \/ TimeoutFire

SpecRender == InitRender /\ [][NextRender]_vars

\* ------------------------------------------------------ two instances
\* The same page twice.  Both instances get the same user input and the same
\* timer firings; the backend may answer a request of the first instance
\* with a failure of the network or of the parse where it answers the same
\* request of the second instance with a non-2xx status.
HasCall(s, id, pc) == \E c \in s.calls : c.id = id /\ c.pc = pc
CallOf(s, id) == CHOOSE c \in s.calls : c.id = id

Respond(s, id, ok, body) ==
  LET c == CallOf(s, id)
  IN  IF c.kind = "rag" THEN ragResponse(s, c, ok, body)
                        ELSE scoringResponse(s, c, ok, body)

FetchThrows(s, id) ==
  LET c == CallOf(s, id)
  IN  IF c.kind = "rag" THEN ragFetchThrows(s, c) ELSE scoringFetchThrows(s, c)

JsonIfReading(s, id) ==
  IF HasCall(s, id, "json")
  THEN LET c == CallOf(s, id)
       IN  IF c.kind = "rag" THEN ragJson(s, c) ELSE scoringJson(s, c)
  ELSE s

TickIfActive(s, t) == IF t \in s.intervals THEN intervalFires(s, t) ELSE s
TimeoutIfPending(s) == IF s.timeouts > 0 THEN timeoutFires(s) ELSE s

BothMounted == Mounted /\ ~RenderThrows(twin)

PairPick(file) ==
  /\ BothMounted
  /\ \/ Commit(handlePdfUpload(State, file)) /\ twin' = handlePdfUpload(twin, file)
     \/ Commit(handleQuestionsUpload(State, file))
          /\ twin' = handleQuestionsUpload(twin, file)
     \/ Commit(handleExpectedAnswersUpload(State, file))
          /\ twin' = handleExpectedAnswersUpload(twin, file)

PairClick ==
  /\ BothMounted
  /\ requests < MaxPairCalls
  /\ twin.requests = requests
  /\ \/ /\ ~GenerateDisabled(State) /\ ~GenerateDisabled(twin)
        /\ Commit(processRAG(State))
        /\ twin' = processRAG(twin)
     \/ /\ ~ScoreDisabled(State) /\ ~ScoreDisabled(twin)
        /\ Commit(processScoring(State))
        /\ twin' = processScoring(twin)

\* the same answer to both instances
PairRespondSame(id, ok, body) ==
  /\ BothMounted
  /\ HasCall(State, id, "fetch") /\ HasCall(twin, id, "fetch")
  /\ body \in IF ok THEN {b \in BodiesOf(CallOf(State, id).kind) : b.tag = "object" /\ b.has}
                    ELSE {NoBody}
  /\ Commit(Respond(State, id, ok, body))
  /\ twin' = Respond(twin, id, ok, body)

\* the network fails for the first instance, a non-2xx status for the second
PairNetworkFailure(id) ==
  /\ BothMounted
  /\ HasCall(State, id, "fetch") /\ HasCall(twin, id, "fetch")
  /\ Commit(FetchThrows(State, id))
  /\ twin' = Respond(twin, id, FALSE, NoBody)

\* a 2xx body that does not parse for the first instance, a non-2xx status
\* for the second
PairParseFailure(id, body) ==
  /\ BothMounted
  /\ HasCall(State, id, "fetch") /\ HasCall(twin, id, "fetch")
  /\ body \in {BodyInvalid, BodyNull}
  /\ Commit(Respond(State, id, TRUE, body))
  /\ twin' = Respond(twin, id, FALSE, NoBody)

PairJson(id) ==
  /\ BothMounted
  /\ HasCall(State, id, "json") \/ HasCall(twin, id, "json")
  /\ Commit(JsonIfReading(State, id))
  /\ twin' = JsonIfReading(twin, id)

PairTick(t) ==
  /\ BothMounted
  /\ t \in intervals \cup twin.intervals
  /\ Commit(TickIfActive(State, t))
  /\ twin' = TickIfActive(twin, t)

PairTimeout ==
  /\ BothMounted
  /\ timeouts > 0 \/ twin.timeouts > 0
  /\ Commit(TimeoutIfPending(State))
  /\ twin' = TimeoutIfPending(twin)

NextPair ==
  \/ \E file \in Picked : PairPick(file)
  \/ PairClick
  \/ \E id \in 1..MaxPairCalls, ok \in BOOLEAN, body \in RagBodies \cup ScoringBodies \cup {NoBody} :
       PairRespondSame(id, ok, body)
  \/ \E id \in 1..MaxPairCalls : PairNetworkFailure(id)
  \/ \E id \in 1..MaxPairCalls, body \in {BodyInvalid, BodyNull} : PairParseFailure(id, body)
  \/ \E id \in 1..MaxPairCalls : PairJson(id)
  \/ \E t \in intervals \cup twin.intervals : PairTick(t)
  \/ PairTimeout

SpecPair == Init /\ [][NextPair]_vars

\* ------------------------------------------------------------------ claims
Outstanding(kind) == \E c \in calls : c.kind = kind /\ c.pc = "fetch"
Quiet == calls = {} /\ timeouts = 0

\* C1 (as claimed): for both workflows and every outcome of the request, once
\* the invocation has ended the busy flag is clear, and once its delayed
\* reset has run as well the progress value is 0 and stays 0.
C1_ProgressReturnsToZero ==
  Quiet => (~loading /\ progress = 0)

\* C2: when the backend answers with a non-2xx status, the step that ends the
\* invocation leaves the workflow's result set exactly as it was when the
\* invocation began, and leaves the busy flag false.
C2_Non2xxKeepsResults ==
  [][\A c \in calls :
       (c.pc = "fetch" /\ c \notin calls' /\ lastEvent'[2] = "non2xx")
       => /\ c.kind = "rag" => ragResults' = c.before.ragResults
          /\ c.kind = "scoring" => scoringResults' = c.before.scoringResults
          /\ loading' = FALSE]_vars

C2_Witness ==
  /\ lastEvent = <<"ragResponse", "non2xx">>
  /\ ragResults.items # <<>>
  /\ ~loading

\* C3: processRAG invoked with the PDF or the questions file unset, and
\* processScoring invoked with the questions or the expected-answers file
\* unset, issue no request, start no timer and change no state variable.
C3_MissingFileIsNoOp ==
  [][( \/ lastEvent'[1] = "processRAG" /\ (pdfFile = Null \/ questionsFile = Null)
       \/ lastEvent'[1] = "processScoring"
            /\ (questionsFile = Null \/ expectedAnswersFile = Null) )
     => UNCHANGED <<activeTab, pdfFile, questionsFile, expectedAnswersFile, loading,
                    progress, ragResults, scoringResults, calls, intervals,
                    timeouts, requests>>]_vars

C3_Witness ==
  /\ lastEvent = <<"processScoring", "return">>
  /\ questionsFile # Null
  /\ expectedAnswersFile = Null
  /\ ragResults.items # <<>>
  /\ requests = 1

\* C4: when a 2xx response carries a JSON object with the list field, the
\* step that stores it leaves the workflow's result set equal to exactly that
\* list, whatever the result set held before.
C4_SuccessReplacesResults ==
  [][\A c \in calls :
       (c.pc = "json" /\ c \notin calls' /\ c.body.tag = "object" /\ c.body.has)
       => /\ c.kind = "rag" => ragResults' = [tag |-> "array", items |-> c.body.list]
          /\ c.kind = "scoring"
               => scoringResults' = [tag |-> "array", items |-> c.body.list]]_vars

C4_Witness ==
  /\ lastEvent = <<"ragJson", "stored">>
  /\ requests = 2
  /\ Len(ragResults.items) = 1

\* C5: while a backend request is outstanding the progress value is at most
\* 90; so progress is 100 only when no request is outstanding.
C5_ProgressBelowCeiling ==
  \A c \in calls : c.pc = "fetch" => progress <= 90

C5_Witness ==
  /\ Outstanding("scoring")
  /\ progress = 90

\* C10: picking a file whose type is not application/pdf in the PDF slot, or
\* not application/json in the questions or expected-answers slot, changes
\* neither that slot nor any other state variable.
C10_WrongTypeIsIgnored ==
  [][( \/ lastEvent'[1] = "handlePdfUpload" /\ lastEvent'[2] # "application/pdf"
       \/ lastEvent'[1] = "handleQuestionsUpload" /\ lastEvent'[2] # "application/json"
       \/ lastEvent'[1] = "handleExpectedAnswersUpload"
            /\ lastEvent'[2] # "application/json" )
     => UNCHANGED <<activeTab, pdfFile, questionsFile, expectedAnswersFile, loading,
                    progress, ragResults, scoringResults, calls, intervals,
                    timeouts, requests>>]_vars

C10_Witness ==
  /\ lastEvent = <<"handlePdfUpload", "text/plain">>
  /\ pdfFile # Null

\* C6 (as claimed): a network failure or a parse failure leaves the page as
\* a non-2xx response does.  Of two instances with the same history, one
\* answered with failures where the other is answered with non-2xx statuses,
\* once every invocation has ended and every delayed reset has run, the busy
\* flag, the progress value, both result sets and the active timers agree.
Settled(s) ==
  [loading |-> s.loading, progress |-> s.progress, ragResults |-> s.ragResults,
   scoringResults |-> s.scoringResults, intervals |-> s.intervals]

C6_FailuresAlike ==
  (Quiet /\ twin.calls = {} /\ twin.timeouts = 0) => Settled(State) = Settled(twin)

\* C7 (as claimed): concurrent invocation is not guarded; while a request of
\* one workflow is outstanding and the files of the other workflow are
\* selected, the submit button of the other workflow accepts a click.
C7_NotGuarded ==
  /\ (Outstanding("rag") /\ questionsFile # Null /\ expectedAnswersFile # Null)
       => ~rendered.scoreDisabled
  /\ (Outstanding("scoring") /\ pdfFile # Null /\ questionsFile # Null)
       => ~rendered.generateDisabled

\* C7 (amended): through user actions at most one workflow invocation is in
\* progress at any time; a /process-rag request and a /score-answers request
\* are never outstanding together.
C7_OneInvocationAtATime ==
  /\ Cardinality(calls) <= 1
  /\ ~(Outstanding("rag") /\ Outstanding("scoring"))

C7_Witness ==
  /\ Outstanding("rag")
  /\ activeTab = "scoring"
  /\ questionsFile # Null
  /\ expectedAnswersFile # Null
  /\ rendered.scoreDisabled

Shown(i) == rendered.scoring.items[i]
Result(i) == scoringResults.items[i]
Rows == IF rendered.scoring.shown THEN 1..Len(scoringResults.items) ELSE {}

\* C8 (as claimed): two scored answers with the same status get the same
\* icon and the same colour class, whatever their scores.
C8_StatusDecidesIconAndColour ==
  \A i, j \in Rows :
    Result(i).status = Result(j).status
    => (Shown(i).icon = Shown(j).icon /\ Shown(i).badge = Shown(j).badge)

\* C8 (amended): the icon of a scored answer is decided by its status alone
\* (excellent: green check, good: yellow warning, anything else: red
\* warning); the colour class of its badge is decided by its score alone
\* (at least 0.8: green, at least 0.6: yellow, below: red).
C8_StatusDecidesIconScoreDecidesColour ==
  \A i \in Rows :
    /\ Result(i).status = "excellent" => Shown(i).icon = "CheckCircle text-green-600"
    /\ Result(i).status = "good" => Shown(i).icon = "AlertCircle text-yellow-600"
    /\ Result(i).status \notin {"excellent", "good"}
         => Shown(i).icon = "AlertCircle text-red-600"
    /\ Result(i).score >= 80 => Shown(i).badge = "bg-green-100 text-green-800"
    /\ (Result(i).score >= 60 /\ Result(i).score < 80)
         => Shown(i).badge = "bg-yellow-100 text-yellow-800"
    /\ Result(i).score < 60 => Shown(i).badge = "bg-red-100 text-red-800"

C8_Witness ==
  \E i, j \in Rows :
    /\ Result(i).status = "excellent" /\ Result(j).status = "excellent"
    /\ Shown(i).icon = Shown(j).icon
    /\ Shown(i).badge = "bg-green-100 text-green-800"
    /\ Shown(j).badge = "bg-yellow-100 text-yellow-800"

Count(status) == Cardinality({i \in 1..Len(scoringResults.items) : Result(i).status = status})

\* C9: the three tallies shown are the numbers of entries whose status is
\* excellent, good and poor; when every status is one of the three, they sum
\* to the length of the list.
C9_TalliesCountStatuses ==
  rendered.scoring.shown =>
    /\ rendered.scoring.overall.excellent = Count("excellent")
    /\ rendered.scoring.overall.good = Count("good")
    /\ rendered.scoring.overall.poor = Count("poor")
    /\ (\A i \in Rows : Result(i).status \in {"excellent", "good", "poor"})
         => rendered.scoring.overall.excellent + rendered.scoring.overall.good
              + rendered.scoring.overall.poor = Len(scoringResults.items)

C9_Witness ==
  /\ rendered.scoring.shown
  /\ [i \in 1..Len(scoringResults.items) |-> Result(i).status]
       = <<"excellent", "good", "poor", "excellent">>
  /\ rendered.scoring.overall = [excellent |-> 2, good |-> 1, poor |-> 1]

\* the invocations that begin in a step: each is suspended at its fetch
Begun == {c \in calls' : c \notin calls /\ c.pc = "fetch"}

\* C11: every step issues as many requests as invocations begin in it, at
\* most one; a step in which a response, a network failure or a parse
\* failure is handled issues none.  So the number of requests issued is the
\* number of submits that passed the missing-file check.
C11_OneRequestPerInvocation ==
  [][/\ requests' = requests + Cardinality(Begun)
     /\ Cardinality(Begun) <= 1
     /\ (\E c \in calls : c \notin calls') => requests' = requests]_vars

C11_Witness ==
  /\ lastEvent = <<"ragFetchThrows", "caught">>
  /\ calls = {}
  /\ requests = 1

\* C12: a file slot that holds a file never becomes empty again; a slot
\* changes only to a file its upload handler accepts.
C12_SelectionsAreNeverCleared ==
  [][/\ pdfFile # Null => pdfFile' # Null
     /\ questionsFile # Null => questionsFile' # Null
     /\ expectedAnswersFile # Null => expectedAnswersFile' # Null
     /\ pdfFile' # pdfFile => pdfFile'.type = "application/pdf"
     /\ questionsFile' # questionsFile => questionsFile'.type = "application/json"
     /\ expectedAnswersFile' # expectedAnswersFile
          => expectedAnswersFile'.type = "application/json"]_vars

C12_Witness ==
  /\ pdfFile.name = "b.pdf"
  /\ questionsFile # Null
  /\ expectedAnswersFile # Null
  /\ lastEvent = <<"handlePdfUpload", "undefined">>
  /\ requests = 2
  /\ calls = {}

\* C13 (as claimed): the interval timer of an invocation is cancelled before
\* the invocation clears the busy flag, on every outcome; so every active
\* interval timer belongs to an invocation that is still in progress.
C13_NoIntervalOutlivesItsInvocation ==
  \A t \in intervals : \E c \in calls : c.id = t.owner

\* C14 (as claimed): while the request of an invocation stays outstanding,
\* the progress value never decreases, whatever happened before.
C14_ProgressNeverDecreases ==
  [][(\E c \in calls : c.pc = "fetch" /\ c \in calls') => progress' >= progress]_vars

\* C15: with the workflows started through their buttons only, the busy flag
\* is true whenever a request is outstanding, and it is false only when no
\* invocation is in progress.
C15_BusyWhileInProgress ==
  /\ (\E c \in calls : c.pc = "fetch") => loading
  /\ ~loading => calls = {}

C15_Witness ==
  /\ loading
  /\ \E c \in calls : c.pc = "json" /\ c.id = 2
  /\ intervals # {}

\* the invocations a step starts, moves on or ends
Touched == (calls \ calls') \cup (calls' \ calls)

\* C16: a step of processRAG leaves scoringResults alone, a step of
\* processScoring leaves ragResults alone, and no step of either changes a
\* file selection.
C16_WorkflowsKeepToTheirOwnResults ==
  [][Touched # {} =>
       /\ UNCHANGED <<pdfFile, questionsFile, expectedAnswersFile>>
       /\ (\A c \in Touched : c.kind = "rag") => scoringResults' = scoringResults
       /\ (\A c \in Touched : c.kind = "scoring") => ragResults' = ragResults]_vars

\* processScoring has run to completion with no PDF selected
C16_Witness ==
  /\ lastEvent = <<"scoringJson", "stored">>
  /\ pdfFile = Null
  /\ Len(scoringResults.items) > 0
  /\ calls = {}

\* C17 (as claimed): both result sets are lists in every reachable state, so
\* the reads of their length in the render never throw.
C17_ResultSetsAreLists ==
  /\ ragResults.tag = "array"
  /\ scoringResults.tag = "array"
  /\ ~rendered.error

====
